---- MODULE Spec2Model ----
(***************************************************************************)
(* Model of alpha.js: the airdrop feed server.  Three globals (cachedData, *)
(* lastFetchTime, previousDataHash), the status resolver                   *)
(* processAirdropStatus, the ordering applied in fetchDataFromAPI, the     *)
(* change detector detectDataChanges, the polling loop startPolling /      *)
(* updateData and the /fetch-data handler.                                 *)
(*                                                                         *)
(* Instants are seconds since an epoch (UTC).  A well-formed date string   *)
(* "YYYY-MM-DD" is the number of its calendar day, a well-formed time      *)
(* string "HH:MM" the number of its minute in the day.  The host timezone  *)
(* is the offset tz (seconds east of UTC) the process runs under.          *)
(***************************************************************************)
EXTENDS Integers, Sequences, FiniteSets, TLC

VARIABLES
  now,              \* the wall clock, new Date()
  tz,               \* the host's timezone offset, fixed for a run
  cachedData,       \* alpha.js:12
  lastFetchTime,    \* alpha.js:13
  previousDataHash, \* alpha.js:14
  poll,             \* the polling loop: startPolling and its interval timer
  reqs,             \* the /fetch-data handlers being served
  served,           \* number of /fetch-data requests received so far
  lastResponse,     \* the response most recently sent by /fetch-data
  bgSince,          \* a background refresh wrote the slot since lastResponse
  lastSettle,       \* who made the upstream request that settled last, how it
                    \* settled and the data it gave
  calls,            \* the detectDataChanges calls made, with their results
  rawIn,            \* the airdrops handed to processAirdropStatus
  resolved          \* what processAirdropStatus returned for rawIn, and when

vars == <<now, tz, cachedData, lastFetchTime, previousDataHash, poll, reqs,
          served, lastResponse, bgSince, lastSettle, calls, rawIn, resolved>>

----------------------------------------------------------------------------
(* Values *)

\* null, as the three globals start; a record, so that it compares with
\* payloads, responses and hashes without being one
Null == [null |-> TRUE]
\* a field that is undefined, null or "": falsy, absent
Absent == 0 - 1
\* a malformed date or time string such as "not-a-date"
Bad == 0 - 2
\* the time value of an Invalid Date
NaN == 0 - 3
\* undefined, for a status field that was never set
Undefined == "undefined"

Hour == 60 * 60
Day == 24 * Hour

\* 5 * 60 * 1000 ms, 10 * 60 * 1000 ms and 30000 ms, in seconds
FreshnessWindow == 5 * 60
PollInterval == 10 * 60
Timeout == 30000 \div 1000
ShiftHours == 18

----------------------------------------------------------------------------
(* Date: what the code uses of the JavaScript Date object *)

\* new Date("YYYY-MM-DD"): a date-only string is UTC midnight of that day
ParseDateOnly(d) == IF d = Bad THEN NaN ELSE d * Day

\* new Date("YYYY-MM-DDTHH:MM"): a date-time string without offset is local time
ParseLocalDateTime(d, m) ==
  IF d = Bad \/ m = Bad THEN NaN ELSE d * Day + m * 60 - tz

\* setHours(h, m, 0, 0): sets the local clock fields, keeps the local day
SetHours(t, h, m) ==
  IF t = NaN THEN NaN ELSE ((t + tz) \div Day) * Day - tz + h * Hour + m * 60

\* getHours(): the local hour
GetHours(t) == ((t + tz) % Day) \div Hour

\* toISOString().slice(0,10): the UTC calendar day
ISODate(t) == t \div Day

\* toTimeString().slice(0,5): the local HH:MM
LocalHHMM(t) == ((t + tz) % Day) \div 60

\* time.split(':').map(Number), then hours || 0 and minutes || 0
HoursOf(m) == IF m = Bad THEN 0 ELSE m \div 60
MinutesOf(m) == IF m = Bad THEN 0 ELSE m % 60

\* as DateLE, with the comparison turned round
DateGE(a, b) == a # NaN /\ b # NaN /\ a >= b

\* a < b and a <= b on Date objects: false as soon as one side is NaN
DateLT(a, b) == a # NaN /\ b # NaN /\ a < b
DateLE(a, b) == a # NaN /\ b # NaN /\ a <= b

----------------------------------------------------------------------------
(* processAirdropStatus *)

\* line 54-55: baseDate, then setHours(getHours() + 18), which carries into
\* the following day
ShiftedInstant(airdrop) ==
  LET baseDate == ParseLocalDateTime(airdrop.date,
                    IF airdrop.time # Absent THEN airdrop.time ELSE 0)
  IN  IF baseDate = NaN THEN NaN
      ELSE SetHours(baseDate, GetHours(baseDate) + ShiftHours,
                    LocalHHMM(baseDate) % 60)

\* line 52-53: the event is rewritten
IsShifted(airdrop) == airdrop.phase = 2 /\ airdrop.date # Absent

\* line 57: toISOString() of an Invalid Date raises a RangeError
ShiftThrows(airdrop) == IsShifted(airdrop) /\ ShiftedInstant(airdrop) = NaN

\* lines 51-60: the event after the shift of phase 2
ShiftPhase2(airdrop) ==
  IF IsShifted(airdrop)
  THEN [airdrop EXCEPT !.date = ISODate(ShiftedInstant(airdrop)),
                       !.time = LocalHHMM(ShiftedInstant(airdrop))]
  ELSE airdrop

\* lines 63-89: the status of an event whose date is present; today is
\* `at` with setHours(0, 0, 0, 0)
ComputedStatus(p, at) ==
  LET today == SetHours(at, 0, 0)
      airdropDate == SetHours(ParseDateOnly(p.date), 0, 0)
      airdropDateTime == SetHours(ParseDateOnly(p.date),
                                  HoursOf(p.time), MinutesOf(p.time))
  IN  IF DateLT(airdropDate, today) THEN "completed"
      ELSE IF airdropDate # NaN /\ airdropDate = today
      THEN IF p.time # Absent
           THEN IF DateLE(airdropDateTime, at) THEN "completed" ELSE "announced"
           ELSE "announced"
      ELSE "announced"

\* lines 48-92: the callback of airdrops.map
ProcessOne(airdrop, at) ==
  LET p == ShiftPhase2(airdrop)
  IN  IF p.date # Absent
      THEN [p EXCEPT !.status = ComputedStatus(p, at),
                     !.original_status = airdrop.status]
      ELSE p

\* lines 44-93.  [ok |-> FALSE] when the call raises: airdrops is undefined
\* (no such field in the body) or a phase 2 date or time does not parse
processAirdropStatus(body, at) ==
  IF "airdrops" \notin DOMAIN body THEN [ok |-> FALSE, value |-> <<>>]
  ELSE IF \E i \in DOMAIN body.airdrops : ShiftThrows(body.airdrops[i])
  THEN [ok |-> FALSE, value |-> <<>>]
  ELSE [ok |-> TRUE,
        value |-> [i \in DOMAIN body.airdrops |-> ProcessOne(body.airdrops[i], at)]]

----------------------------------------------------------------------------
(* The ordering of fetchDataFromAPI, lines 120-132 *)

\* localeCompare on the strings a date or time field can hold: '' first,
\* then the well-formed strings (digits) in their order, then "not-a-date"
StringRank(v) == IF v = Absent THEN 0 - 1 ELSE IF v = Bad THEN 100000 ELSE v

\* as Compare, with the events that have a time ahead of those without
CompareTimedFirst(a, b) ==
  IF a.date # b.date
  THEN (IF StringRank(b.date) < StringRank(a.date) THEN 0 - 1 ELSE 1)
  ELSE IF a.time = Absent /\ b.time # Absent THEN 1
  ELSE IF a.time # Absent /\ b.time = Absent THEN 0 - 1
  ELSE IF a.time # Absent /\ b.time # Absent
  THEN (IF StringRank(b.time) < StringRank(a.time) THEN 0 - 1
        ELSE IF StringRank(b.time) > StringRank(a.time) THEN 1 ELSE 0)
  ELSE 0

\* the comparator: negative when a goes first, positive when b goes first
Compare(a, b) ==
  IF a.date # b.date
  THEN (IF StringRank(b.date) < StringRank(a.date) THEN 0 - 1 ELSE 1)
  ELSE IF a.time = Absent /\ b.time # Absent THEN 0 - 1
  ELSE IF a.time # Absent /\ b.time = Absent THEN 1
  ELSE IF a.time # Absent /\ b.time # Absent
  THEN (IF StringRank(b.time) < StringRank(a.time) THEN 0 - 1
        ELSE IF StringRank(b.time) > StringRank(a.time) THEN 1 ELSE 0)
  ELSE 0

\* Array.prototype.sort is stable: an element goes after every element
\* already placed that does not have to follow it
RECURSIVE InsertSorted(_, _)
InsertSorted(sorted, e) ==
  IF sorted = <<>> THEN <<e>>
  ELSE IF Compare(sorted[Len(sorted)], e) <= 0 THEN Append(sorted, e)
  ELSE Append(InsertSorted(SubSeq(sorted, 1, Len(sorted) - 1), e),
              sorted[Len(sorted)])

RECURSIVE SortAirdrops(_)
SortAirdrops(s) ==
  IF s = <<>> THEN <<>>
  ELSE InsertSorted(SortAirdrops(SubSeq(s, 1, Len(s) - 1)), s[Len(s)])

\* lines 96-145, given the upstream's answer: a body, or no answer (a
\* transport error, a timeout).  [ok |-> FALSE] is the Error it throws
fetchDataFromAPI(answer, at) ==
  IF "body" \notin DOMAIN answer THEN [ok |-> FALSE, data |-> Null]
  ELSE LET processed == processAirdropStatus(answer.body, at)
       IN  IF ~processed.ok THEN [ok |-> FALSE, data |-> Null]
           ELSE [ok |-> TRUE,
                 data |-> [answer.body EXCEPT
                             !.airdrops = SortAirdrops(processed.value)]]

----------------------------------------------------------------------------
(* The change detector *)

\* lines 17-28: JSON.stringify of the (token, status, date, time) of every
\* airdrop, in order; null when there is no data or no airdrops array
generateDataHash(data) ==
  IF data = Null \/ "airdrops" \notin DOMAIN data THEN Null
  ELSE [json |-> [i \in DOMAIN data.airdrops |->
                    <<data.airdrops[i].token, data.airdrops[i].status,
                      data.airdrops[i].date, data.airdrops[i].time>>]]

\* as detectDataChanges, without the test that a previous hash exists
detectDataChangesFromNull(previous, newData) ==
  LET newHash == generateDataHash(newData)
  IN  IF newHash # previous
      THEN [hasChanges |-> TRUE, previousDataHash |-> previous]
      ELSE [hasChanges |-> FALSE, previousDataHash |-> newHash]

\* as detectDataChanges, storing the new hash on every call
detectDataChangesStoring(previous, newData) ==
  LET newHash == generateDataHash(newData)
  IN  [hasChanges |-> (previous # Null /\ newHash # previous),
       previousDataHash |-> newHash]

\* lines 31-41: what it returns and what it leaves in previousDataHash
detectDataChanges(previous, newData) ==
  LET newHash == generateDataHash(newData)
  IN  IF previous # Null /\ newHash # previous
      THEN [hasChanges |-> TRUE, previousDataHash |-> previous]
      ELSE [hasChanges |-> FALSE, previousDataHash |-> newHash]

----------------------------------------------------------------------------
(* Bounds and the upstream *)

MaxTicks == 2         \* interval timer ticks a run can see
MaxRequests == 2      \* /fetch-data requests a run receives

\* the hosts' timezones: New York (winter), UTC, Shanghai
TZOffsets == {0 - 5 * Hour, 0, 8 * Hour}

\* the process starts on day 10 at 12:00 UTC
StartInstant == 10 * Day + 12 * Hour
MaxTime == StartInstant + Timeout + MaxTicks * PollInterval

\* the clock is read every freshness window, and whenever a deadline falls
TimeSteps == {FreshnessWindow}

Event(token, phase, date, time, status) ==
  [token |-> token, phase |-> phase, date |-> date, time |-> time,
   status |-> status, original_status |-> Undefined]

\* bodies the upstream answers with: { airdrops: [...], total: n }
Bodies ==
  { [airdrops |-> <<Event("A", 1, 10, 12 * 60 + 10, "announced")>>,
     total |-> 1],
    [airdrops |-> <<Event("A", 1, 10, 12 * 60 + 10, "announced"),
                    Event("B", 2, 10, Absent, "announced")>>,
     total |-> 2],
    \* a body without airdrops
    [total |-> 0],
    \* a phase 2 event whose date does not parse
    [airdrops |-> <<Event("C", 2, Bad, Absent, "announced")>>, total |-> 1] }

\* axios.get resolves with a body or rejects (transport error, non-2xx)
Answers == {[body |-> b] : b \in Bodies} \cup {[error |-> "ECONNRESET"]}

\* line 111: the request is abandoned 30 s after it was sent
TimedOut(since, at) == at >= since + Timeout

\* what axios.get can settle with at instant `at`
TimeoutError == [error |-> "timeout of 30000ms exceeded"]
AnswersAt(since, at) == IF TimedOut(since, at) THEN {TimeoutError} ELSE Answers
AllAnswers == Answers \cup {TimeoutError}

----------------------------------------------------------------------------
(* The server *)

\* lines 12-14 and the server before it listens
Loaded ==
  /\ cachedData = Null
  /\ lastFetchTime = Absent
  /\ previousDataHash = Null
  /\ poll = [pc |-> "start", fetches |-> {}, armed |-> FALSE, due |-> Absent,
             attempts |-> 0]
  /\ reqs = <<>>
  /\ served = 0
  /\ lastResponse = Null
  /\ bgSince = FALSE
  /\ lastSettle = Null

Init ==
  /\ now = StartInstant
  /\ tz \in TZOffsets
  /\ Loaded
  /\ calls = <<>>
  /\ rawIn = <<>>
  /\ resolved = <<>>

Aside == <<calls, rawIn, resolved>>

\* lines 236-243 and 148-152: the listen callback calls startPolling, which
\* calls updateData at once
startPolling ==
  /\ poll.pc = "start"
  /\ poll' = [poll EXCEPT !.pc = "polling", !.fetches = {now}, !.attempts = 1]
  /\ UNCHANGED <<now, tz, cachedData, lastFetchTime, previousDataHash, reqs,
                 served, lastResponse, bgSince, lastSettle, Aside>>

\* as ArmTimer, for an updateData that lets the failure through to
\* startPolling, which then never reaches setInterval
ArmTimerOnSuccess(p, ok) ==
  IF p.armed \/ ~ok THEN p ELSE [p EXCEPT !.armed = TRUE, !.due = now + PollInterval]

\* lines 152-158: once the first updateData has returned, however it went,
\* startPolling sets the timer
ArmTimer(p, ok) ==
  IF p.armed THEN p ELSE [p EXCEPT !.armed = TRUE, !.due = now + PollInterval]

\* lines 162-181: updateData once fetchDataFromAPI has settled.  The slot
\* after a failure (the catch of line 178)
\* as SlotAfterFailure, for a catch that resets the cache
SlotClearedAfterFailure ==
  [cachedData |-> Null, lastFetchTime |-> Absent,
   previousDataHash |-> previousDataHash]

SlotAfterFailure ==
  [cachedData |-> cachedData, lastFetchTime |-> lastFetchTime,
   previousDataHash |-> previousDataHash]

\* as SlotAfterSuccess, for a refresh that gives way to a snapshot stored
\* while it was waiting for upstream
SlotAfterSuccessUnlessFresh(data) ==
  IF lastFetchTime # Absent /\ now - lastFetchTime < FreshnessWindow
  THEN [cachedData |-> cachedData, lastFetchTime |-> lastFetchTime,
        previousDataHash |-> previousDataHash]
  ELSE [cachedData |-> data, lastFetchTime |-> now,
        previousDataHash |-> detectDataChanges(previousDataHash, data).previousDataHash]

\* as SlotAfterSuccess, for a refresh that stores the data and leaves the
\* fetch time to a later step
SlotAfterSuccessDataOnly(data) ==
  [cachedData |-> data, lastFetchTime |-> lastFetchTime,
   previousDataHash |-> detectDataChanges(previousDataHash, data).previousDataHash]

\* as SlotAfterSuccess, for a handler that caches what it responds
SlotAfterSuccessAnnotated(data) ==
  [cachedData |-> [f \in DOMAIN data \cup {"hasChanges", "lastUpdateTime"} |->
                     IF f = "hasChanges"
                     THEN detectDataChanges(previousDataHash, data).hasChanges
                     ELSE IF f = "lastUpdateTime" THEN now
                     ELSE data[f]],
   lastFetchTime |-> now,
   previousDataHash |-> detectDataChanges(previousDataHash, data).previousDataHash]

\* the slot after a success (lines 167-170, 195-198)
SlotAfterSuccess(data) ==
  [cachedData |-> data, lastFetchTime |-> now,
   previousDataHash |-> detectDataChanges(previousDataHash, data).previousDataHash]

\* the three globals become those of `slot`
WriteSlot(slot) ==
  /\ cachedData' = slot.cachedData
  /\ lastFetchTime' = slot.lastFetchTime
  /\ previousDataHash' = slot.previousDataHash

updateData(since, answer) ==
  LET fetched == fetchDataFromAPI(answer, now)
      p == [poll EXCEPT !.fetches = @ \ {since}]
  IN  /\ since \in poll.fetches
      /\ answer \in AnswersAt(since, now)
      /\ WriteSlot(IF fetched.ok THEN SlotAfterSuccess(fetched.data)
                   ELSE SlotAfterFailure)
      /\ bgSince' = (bgSince \/ fetched.ok)
      /\ poll' = ArmTimer(p, fetched.ok)
      /\ lastSettle' = [by |-> "poll", ok |-> fetched.ok, data |-> fetched.data]
      /\ UNCHANGED <<now, tz, reqs, served, lastResponse, Aside>>

\* lines 155-158: the interval timer fires and calls updateData
IntervalFires ==
  /\ poll.armed
  /\ now = poll.due
  /\ poll' = [poll EXCEPT !.fetches = @ \cup {now}, !.due = @ + PollInterval,
                          !.attempts = @ + 1]
  /\ UNCHANGED <<now, tz, cachedData, lastFetchTime, previousDataHash, reqs,
                 served, lastResponse, bgSince, lastSettle, Aside>>

\* as CacheIsFresh, comparing with <= : a snapshot of exactly five minutes
\* still answers
CacheIsFreshInclusive ==
  cachedData # Null /\ lastFetchTime # Absent
    /\ now - lastFetchTime <= FreshnessWindow

\* line 186: the cache can answer
CacheIsFresh ==
  cachedData # Null /\ lastFetchTime # Absent
    /\ now - lastFetchTime < FreshnessWindow

\* as CachedResponse, for a handler that answers a hit with the annotations
\* of a refresh
CachedResponseAnnotated ==
  [status |-> 200,
   body |-> [f \in DOMAIN cachedData \cup {"hasChanges", "lastUpdateTime"} |->
               IF f = "hasChanges" THEN FALSE
               ELSE IF f = "lastUpdateTime" THEN lastFetchTime
               ELSE cachedData[f]]]

\* line 188: res.json(cachedData)
CachedResponse == [status |-> 200, body |-> cachedData]

\* lines 201-207: { ...data, hasChanges, lastUpdateTime }
LiveResponse(data, hasChanges) ==
  [status |-> 200,
   body |-> [f \in DOMAIN data \cup {"hasChanges", "lastUpdateTime"} |->
               IF f = "hasChanges" THEN hasChanges
               ELSE IF f = "lastUpdateTime" THEN now
               ELSE data[f]]]

\* lines 208-220: res.status(500).json(errorResponse)
ErrorResponse ==
  [status |-> 500,
   body |-> [error |-> "fetch failed", details |-> [type |-> "Error", timestamp |-> now]]]

\* lines 183-192: a /fetch-data request arrives; it is answered from the
\* cache, or it sends its own request upstream
fetchData ==
  /\ poll.pc # "start"
  /\ served < MaxRequests
  /\ served' = served + 1
  /\ IF CacheIsFresh
     THEN /\ lastResponse' = CachedResponse
          /\ bgSince' = FALSE
          /\ reqs' = reqs
     ELSE /\ reqs' = Append(reqs, now)
          /\ UNCHANGED <<lastResponse, bgSince>>
  /\ UNCHANGED <<now, tz, cachedData, lastFetchTime, previousDataHash, poll,
                 lastSettle, Aside>>

\* as FailureResponse, for a handler that falls back on the snapshot it has
StaleOnFailure == IF cachedData # Null THEN CachedResponse ELSE ErrorResponse

\* lines 208-220: what the handler answers when its fetch has failed
FailureResponse == ErrorResponse

\* lines 192-220: the handler once fetchDataFromAPI has settled
fetchDataSettles(i, answer) ==
  LET fetched == fetchDataFromAPI(answer, now)
      hasChanges == detectDataChanges(previousDataHash, fetched.data).hasChanges
  IN  /\ i \in DOMAIN reqs
      /\ answer \in AnswersAt(reqs[i], now)
      /\ WriteSlot(IF fetched.ok THEN SlotAfterSuccess(fetched.data)
                   ELSE SlotAfterFailure)
      /\ lastResponse' = IF fetched.ok THEN LiveResponse(fetched.data, hasChanges)
                         ELSE FailureResponse
      /\ bgSince' = FALSE
      /\ reqs' = [j \in 1..(Len(reqs) - 1) |-> IF j < i THEN reqs[j] ELSE reqs[j + 1]]
      /\ lastSettle' = [by |-> "request", ok |-> fetched.ok,
                        data |-> fetched.data]
      /\ UNCHANGED <<now, tz, poll, served, Aside>>

\* as Deadlines, for an upstream request sent without a timeout
DeadlinesWithoutTimeout == IF poll.armed THEN {poll.due} ELSE {}

\* the instants the clock cannot pass without something happening: a
\* request upstream is abandoned (line 111), the timer is due (line 158)
Deadlines ==
  {since + Timeout : since \in poll.fetches}
    \cup {reqs[i] + Timeout : i \in DOMAIN reqs}
    \cup (IF poll.armed THEN {poll.due} ELSE {})

Earliest(S) == CHOOSE t \in S : \A u \in S : t <= u

\* time passes, by d or up to the next deadline
Tick(d) ==
  /\ poll.pc # "start"
  /\ now' = Earliest({now + d} \cup Deadlines)
  /\ now' > now
  /\ now' <= MaxTime
  /\ UNCHANGED <<tz, cachedData, lastFetchTime, previousDataHash, poll, reqs,
                 served, lastResponse, bgSince, lastSettle, Aside>>

Next ==
  \/ startPolling
  \/ \E since \in poll.fetches, answer \in AllAnswers : updateData(since, answer)
  \/ IntervalFires
  \/ fetchData
  \/ \E i \in DOMAIN reqs, answer \in AllAnswers : fetchDataSettles(i, answer)
  \/ \E d \in TimeSteps : Tick(d)

Spec == Init /\ [][Next]_vars

----------------------------------------------------------------------------
(* Claims about the server, checked under Spec *)

\* upstream requests in flight, whoever sent them
InFlight == Cardinality(poll.fetches) + Len(reqs)

\* the steps: a /fetch-data request arrives; it is answered from the cache;
\* an upstream request of the loop, of a handler, settles
RequestArrives == served' = served + 1
AnsweredFromCache == RequestArrives /\ reqs' = reqs
PollSettles == poll'.fetches # poll.fetches /\ Cardinality(poll'.fetches) < Cardinality(poll.fetches)
RequestSettles == Len(reqs') < Len(reqs)

\* C1 as stated: counting the loop's refreshes and the /fetch-data refreshes
\* together, at most one upstream fetch is in flight at any time.
C1_AtMostOneInFlight == InFlight <= 1

\* C1, amended: at most one upstream fetch sent by the polling loop is in
\* flight at any time; the fetches of /fetch-data handlers are not limited
\* and run next to it.
C1_AtMostOnePollFetch == Cardinality(poll.fetches) <= 1

\* C1 witness: a fetch of an interval tick in flight together with a fetch
\* of a /fetch-data handler
C1_Witness == poll.attempts >= 2 /\ Cardinality(poll.fetches) = 1 /\ Len(reqs) >= 1

\* the snapshot still counts as fresh, stated on the globals
WithinWindow == lastFetchTime # Absent /\ now - lastFetchTime < FreshnessWindow

\* the previous /fetch-data call returned a payload and the loop has not
\* refreshed since
AfterPayload == lastResponse # Null /\ lastResponse.status = 200 /\ ~bgSince

\* a payload without the two annotations of a live refresh
Unannotated(body) ==
  [f \in DOMAIN body \ {"hasChanges", "lastUpdateTime"} |-> body[f]]

\* C2 as stated: of two /fetch-data calls one after the other within the
\* freshness window, with no background refresh in between, the second
\* returns data identical to the first and sends nothing upstream, whether
\* the first was a cache hit or a live refresh.
C2_SecondCallIdentical ==
  [][(RequestArrives /\ AfterPayload /\ WithinWindow)
       => (reqs' = reqs /\ lastResponse' = lastResponse)]_vars

\* C2, amended: the second call sends nothing upstream and returns the cached
\* snapshot; that is the first call's response when the first was a cache
\* hit, and the first call's response without hasChanges and lastUpdateTime
\* when the first was a live refresh.
C2_SecondCallFromCache ==
  [][(RequestArrives /\ AfterPayload /\ WithinWindow)
       => /\ reqs' = reqs
          /\ lastResponse'.status = 200
          /\ lastResponse'.body = cachedData
          /\ lastResponse'.body = Unannotated(lastResponse.body)
          /\ ("hasChanges" \notin DOMAIN lastResponse.body
                => lastResponse' = lastResponse)]_vars

\* C2 witness: a cache hit has answered right after a live refresh, within
\* the window, with the same snapshot less the annotations
C2_Witness ==
  /\ served = 2 /\ reqs = <<>> /\ AfterPayload /\ WithinWindow
  /\ lastSettle # Null /\ lastSettle.by = "request" /\ lastSettle.ok
  /\ "hasChanges" \notin DOMAIN lastResponse.body
  /\ lastResponse.body = cachedData

C4_FailureKeepsSlot ==
  [][((PollSettles \/ RequestSettles) /\ ~lastSettle'.ok)
       => UNCHANGED <<cachedData, lastFetchTime, previousDataHash>>]_vars

\* C4 witness: the last fetch failed and the snapshot of an earlier one is
\* still there
C4_Witness ==
  /\ lastSettle # Null /\ ~lastSettle.ok
  /\ cachedData # Null /\ lastFetchTime # Absent /\ previousDataHash # Null

\* C6: a fetch that fails in a /fetch-data handler is answered with status
\* 500, an error message and details, never with a payload, also when a
\* snapshot is cached; a fetch that fails in the loop answers nobody.
C6_FailureOutcome ==
  [][((RequestSettles /\ ~lastSettle'.ok)
        => (lastResponse'.status = 500
              /\ DOMAIN lastResponse'.body = {"error", "details"}))
     /\ ((PollSettles /\ ~lastSettle'.ok)
           => lastResponse' = lastResponse)]_vars

\* C6 witness: a handler's fetch failed while a snapshot was cached, and the
\* answer was the error
C6_Witness ==
  /\ lastSettle # Null /\ lastSettle.by = "request" /\ ~lastSettle.ok
  /\ cachedData # Null
  /\ lastResponse # Null /\ lastResponse.status = 500

\* C8 as stated: after every successful refresh the stored fingerprint is the
\* fingerprint of the collection that refresh wrote into the slot.
C8_HashIsOfCachedData ==
  cachedData # Null => previousDataHash = generateDataHash(cachedData)

----------------------------------------------------------------------------
(* The change detector on its own: detectDataChanges called on a series of
   collections *)

MaxCalls == 3        \* calls of detectDataChanges in a run
MaxAirdrops == 2     \* airdrops in a collection handed to it

\* normalized events: two that differ in status alone, and one that differs
\* from the first outside the four hashed fields
Normalized ==
  { [Event("A", 1, 10, 600, "announced") EXCEPT !.original_status = "announced"],
    [Event("A", 1, 10, 600, "completed") EXCEPT !.original_status = "announced"],
    [Event("A", 2, 10, 600, "announced") EXCEPT !.original_status = "completed"] }

Collections ==
  UNION { [1..n -> Normalized] : n \in 0..MaxAirdrops }

InitTracker == Init /\ tz = 0

\* a refresh hands the collection c to detectDataChanges
Observe(c) ==
  LET detected == detectDataChanges(previousDataHash, [airdrops |-> c])
  IN  /\ Len(calls) < MaxCalls
      /\ calls' = Append(calls, [airdrops |-> c, hasChanges |-> detected.hasChanges])
      /\ previousDataHash' = detected.previousDataHash
      /\ UNCHANGED <<now, tz, cachedData, lastFetchTime, poll, reqs, served,
                     lastResponse, bgSince, lastSettle, rawIn, resolved>>

NextTracker == \E c \in Collections : Observe(c)

SpecTracker == InitTracker /\ [][NextTracker]_vars

\* the same (token, status, date, time) in the same order
SameTuples(c, d) ==
  /\ Len(c) = Len(d)
  /\ \A i \in DOMAIN c :
       /\ c[i].token = d[i].token /\ c[i].status = d[i].status
       /\ c[i].date = d[i].date /\ c[i].time = d[i].time

\* as c, but for the status of one airdrop
OneStatusDiffers(c, d) ==
  /\ Len(c) = Len(d)
  /\ \E k \in DOMAIN c :
       /\ c[k].status # d[k].status
       /\ c[k].token = d[k].token /\ c[k].date = d[k].date /\ c[k].time = d[k].time
       /\ \A i \in DOMAIN c \ {k} :
            /\ c[i].token = d[i].token /\ c[i].status = d[i].status
            /\ c[i].date = d[i].date /\ c[i].time = d[i].time

\* C7: with no stored fingerprint, the first call returns false; a second
\* call with the same tuples in the same order returns false; a call after
\* these with the status of one tuple changed returns true.
C7_FirstSameChanged ==
  /\ Len(calls) >= 1 => ~calls[1].hasChanges
  /\ (Len(calls) >= 2 /\ SameTuples(calls[1].airdrops, calls[2].airdrops))
       => ~calls[2].hasChanges
  /\ (Len(calls) >= 3 /\ SameTuples(calls[1].airdrops, calls[2].airdrops)
        /\ OneStatusDiffers(calls[2].airdrops, calls[3].airdrops))
       => calls[3].hasChanges

\* C7 witness: three calls, the second with the tuples of the first (in
\* another record), the third with one status changed, reported as a change
C7_Witness ==
  /\ Len(calls) = 3
  /\ calls[1].airdrops # calls[2].airdrops
  /\ SameTuples(calls[1].airdrops, calls[2].airdrops)
  /\ OneStatusDiffers(calls[2].airdrops, calls[3].airdrops)
  /\ ~calls[1].hasChanges /\ ~calls[2].hasChanges /\ calls[3].hasChanges

\* C9: once a call has returned true for a collection, every later call with
\* that same collection returns true again.
C9_ChangeReportedAgain ==
  \A i, j \in DOMAIN calls :
    (i < j /\ calls[i].hasChanges /\ SameTuples(calls[i].airdrops, calls[j].airdrops))
      => calls[j].hasChanges

\* C9 witness: the changed collection handed in twice in a row, reported as a
\* change both times
C9_Witness ==
  /\ Len(calls) = 3
  /\ calls[2].hasChanges /\ calls[3].hasChanges
  /\ SameTuples(calls[2].airdrops, calls[3].airdrops)

----------------------------------------------------------------------------
(* The polling loop under the scheduling of the event loop: a timer that is
   due fires, a request upstream settles (by its timeout at the latest),
   time passes *)

\* one host: the loop does not read the timezone
InitLive == Init /\ tz = 0

SpecLive ==
  /\ InitLive /\ [][Next]_vars
  /\ WF_vars(startPolling)
  /\ WF_vars(IntervalFires)
  /\ WF_vars(\E since \in poll.fetches, answer \in AllAnswers : updateData(since, answer))
  /\ WF_vars(\E i \in DOMAIN reqs, answer \in AllAnswers : fetchDataSettles(i, answer))
  /\ WF_vars(\E d \in TimeSteps : Tick(d))

\* C5: the loop refreshes once at the start and then at every interval,
\* whether the attempts before failed or not, the first one included: the
\* attempt of every tick a run sees is made in the end (attempts only grows,
\* so each attempt is followed by the next).
C5_NextAttemptFollows == <>(poll.attempts = MaxTicks + 1)

\* C5 witness: the first refresh failed (nothing is cached and no request
\* came) and the loop is at a later attempt
C5_Witness ==
  /\ poll.attempts >= 2 /\ served = 0 /\ cachedData = Null
  /\ lastSettle # Null /\ lastSettle.by = "poll" /\ ~lastSettle.ok

----------------------------------------------------------------------------
(* The resolver on its own: processAirdropStatus on one raw event, at one
   instant and again at later ones *)

MaxResolves == 2     \* calls of processAirdropStatus in a run

\* 00:00, 10:00 and 23:30
RawTimes == {Absent, Bad, 0, 10 * 60, 23 * 60 + 30}
RawDates == {Absent, Bad, 9, 10, 11}
RawEvents ==
  { Event("A", phase, date, time, status) :
      phase \in {Absent, 1, 2}, date \in RawDates, time \in RawTimes,
      status \in {"announced", "completed"} }

\* day 10 at 02:00, 10:00, 15:00 and 23:00 UTC: 10:00 on day 10 in each of
\* the timezones, and 23:00
EvalInstants == {10 * Day + h * Hour : h \in {2, 10, 15, 23}}

InitResolver ==
  /\ now \in EvalInstants
  /\ tz \in TZOffsets
  /\ Loaded
  /\ calls = <<>>
  /\ rawIn \in {<<e>> : e \in RawEvents}
  /\ resolved = <<>>

\* line 117: processAirdropStatus(response.data.airdrops)
Resolve ==
  /\ Len(resolved) < MaxResolves
  /\ resolved' = Append(resolved,
                   [at |-> now, out |-> processAirdropStatus([airdrops |-> rawIn], now)])
  /\ UNCHANGED <<now, tz, cachedData, lastFetchTime, previousDataHash, poll, reqs,
                 served, lastResponse, bgSince, lastSettle, calls, rawIn>>

\* time passes between two calls
Elapse(t) ==
  /\ t > now
  /\ now' = t
  /\ UNCHANGED <<tz, cachedData, lastFetchTime, previousDataHash, poll, reqs,
                 served, lastResponse, bgSince, lastSettle, calls, rawIn, resolved>>

NextResolver == Resolve \/ \E t \in EvalInstants : Elapse(t)

SpecResolver == InitResolver /\ [][NextResolver]_vars

\* the calendar day an instant falls on, on the host's clock
LocalDay(t) == (t + tz) \div Day

\* the instant of a date and a time on the host's clock
LocalInstant(date, time) == date * Day + time * 60 - tz

\* the status the rule gives an event with a date, at instant `at`
StatusByRule(date, time, at) ==
  IF date < LocalDay(at) THEN "completed"
  ELSE IF date = LocalDay(at)
  THEN (IF time # Absent /\ LocalInstant(date, time) <= at
        THEN "completed" ELSE "announced")
  ELSE "announced"

\* C10 as stated: for every event with an effective date and every instant,
\* the status is completed when the date is before today; on today it is
\* completed exactly when a time is present and date + time <= now; it is
\* announced when the date is after today.
C10_StatusByRule ==
  \A r \in DOMAIN resolved :
    resolved[r].out.ok =>
      \A i \in DOMAIN resolved[r].out.value :
        LET p == resolved[r].out.value[i]
        IN  (p.date \notin {Absent, Bad} /\ p.time # Bad)
              => p.status = StatusByRule(p.date, p.time, resolved[r].at)

\* C11: for one event, the resolver never gives completed at an instant and
\* announced at a later one.
C11_StatusMonotonic ==
  \A r1, r2 \in DOMAIN resolved :
    (r1 < r2 /\ resolved[r1].at < resolved[r2].at
       /\ resolved[r1].out.ok /\ resolved[r2].out.ok)
      => \A i \in DOMAIN resolved[r1].out.value :
           ~(resolved[r1].out.value[i].status = "completed"
               /\ resolved[r2].out.value[i].status = "announced")

\* C11 witness: an event with a date and a time, announced at one instant and
\* completed at a later one
C11_Witness ==
  /\ Len(resolved) = 2
  /\ resolved[1].at < resolved[2].at
  /\ resolved[1].out.ok /\ resolved[2].out.ok
  /\ resolved[1].out.value[1].date # Absent
  /\ resolved[1].out.value[1].time \notin {Absent, Bad}
  /\ resolved[1].out.value[1].status = "announced"
  /\ resolved[2].out.value[1].status = "completed"

\* the minutes from day 0, 00:00 to a wall-clock date and time (no time: 00:00)
WallMinutes(date, time) == date * 24 * 60 + (IF time = Absent THEN 0 ELSE time)

\* C12: the resolver rewrites date and time exactly when phase is 2 and the
\* date is present; the rewritten pair is the input wall-clock date and time
\* plus 18 hours, the day rolling over; every other event keeps its date and
\* time (events whose date and time are well formed or absent).
C12_ShiftBy18Hours ==
  \A r \in DOMAIN resolved :
    (\A i \in DOMAIN rawIn : rawIn[i].date # Bad /\ rawIn[i].time # Bad)
      => (resolved[r].out.ok
          /\ \A i \in DOMAIN rawIn :
               LET raw == rawIn[i]
                   p == resolved[r].out.value[i]
               IN  IF raw.phase = 2 /\ raw.date # Absent
                   THEN (p.time \in 0 .. (24 * 60 - 1)
                         /\ WallMinutes(p.date, p.time)
                              = WallMinutes(raw.date, raw.time)
                                  + ShiftHours * 60)
                   ELSE p.date = raw.date /\ p.time = raw.time)

\* C14: an event whose date is malformed, whatever its phase, does not make
\* the resolver raise, and comes out as an event without a date does: status
\* as upstream, no original_status, date and time untouched.
C14_MalformedDateAsAbsent ==
  \A r \in DOMAIN resolved :
    \A i \in DOMAIN rawIn :
      rawIn[i].date = Bad
        => (resolved[r].out.ok
            /\ resolved[r].out.value[i] = rawIn[i])

\* the other upstream status of the two in RawEvents
OtherStatus(status) == IF status = "announced" THEN "completed" ELSE "announced"

\* C15: the status of every normalized event is announced or completed and
\* does not depend on the upstream status: the event with the other upstream
\* status resolves to the same status.
C15_StatusIgnoresUpstream ==
  \A r \in DOMAIN resolved :
    resolved[r].out.ok
      => \A i \in DOMAIN rawIn :
           LET twin == [rawIn[i] EXCEPT !.status = OtherStatus(@)]
           IN  /\ resolved[r].out.value[i].status \in {"announced", "completed"}
               /\ resolved[r].out.value[i].status
                    = ProcessOne(twin, resolved[r].at).status

\* C16: every normalized event, the one without an effective date included,
\* carries the upstream status as original_status.
C16_OriginalStatusKept ==
  \A r \in DOMAIN resolved :
    resolved[r].out.ok
      => \A i \in DOMAIN rawIn :
           resolved[r].out.value[i].original_status = rawIn[i].status

----------------------------------------------------------------------------
(* The ordering of a refreshed snapshot: one refresh over every feed of up
   to MaxFeed events *)

MaxFeed == 3

\* airdrops of a feed: two that differ by the token only, events with and
\* without a time on the same and on different days, phase 2 events that the
\* resolver moves, an event without a date
FeedEvents ==
  { Event("A", 1, 10, Absent, "announced"),
    Event("B", 1, 10, Absent, "announced"),
    Event("C", 1, 10, 10 * 60, "announced"),
    Event("D", 1, 10, 23 * 60 + 30, "announced"),
    Event("E", 1, 9, 23 * 60 + 30, "announced"),
    Event("F", 2, 9, 10 * 60, "announced"),
    Event("G", 2, 10, Absent, "announced"),
    Event("H", 1, Absent, Absent, "announced") }

Feeds == UNION {[1 .. n -> FeedEvents] : n \in 0 .. MaxFeed}

InitFeed ==
  /\ now = StartInstant
  /\ tz \in TZOffsets
  /\ Loaded
  /\ calls = <<>>
  /\ rawIn \in Feeds
  /\ resolved = <<>>

\* lines 164-170: one refresh of the snapshot from the feed rawIn
Refresh ==
  LET fetched == fetchDataFromAPI([body |-> [airdrops |-> rawIn]], now)
  IN  /\ cachedData = Null
      /\ fetched.ok
      /\ WriteSlot(SlotAfterSuccess(fetched.data))
      /\ UNCHANGED <<now, tz, poll, reqs, served, lastResponse, bgSince,
                     lastSettle, Aside>>

NextFeed == Refresh

SpecFeed == InitFeed /\ [][NextFeed]_vars

\* how many times e occurs in s
Occurrences(e, s) == Cardinality({k \in DOMAIN s : s[k] = e})

\* the events of s on date d that have no time, in their order in s
UntimedOn(d, s) == SelectSeq(s, LAMBDA e : e.date = d /\ e.time = Absent)

\* C13: the airdrops of a refreshed snapshot are a permutation of the
\* resolved events, descending by effective date; on one date the events
\* without a time come before those with one, those with a time are in
\* descending time order, and those without keep their input order.
C13_SnapshotOrdered ==
  cachedData # Null =>
    LET out == cachedData.airdrops
        res == processAirdropStatus([airdrops |-> rawIn], lastFetchTime).value
    IN  /\ Len(out) = Len(res)
        /\ \A k \in DOMAIN res : Occurrences(res[k], out) = Occurrences(res[k], res)
        /\ \A i, j \in DOMAIN out :
             (i < j /\ out[i].date # Absent /\ out[j].date # Absent)
               => /\ out[i].date >= out[j].date
                  /\ (out[i].date = out[j].date /\ out[j].time = Absent)
                       => out[i].time = Absent
                  /\ (out[i].date = out[j].date /\ out[i].time # Absent
                        /\ out[j].time # Absent)
                       => out[i].time >= out[j].time
        /\ \A k \in DOMAIN res :
             UntimedOn(res[k].date, out) = UntimedOn(res[k].date, res)

\* C13 witness: a snapshot of three events of one date that the sort had to
\* reorder: two without a time, tokens B then A as in the feed, and one with
\* a time that the feed had ahead of them
C13_Witness ==
  /\ cachedData # Null
  /\ Len(rawIn) = 3
  /\ rawIn[1].time # Absent
  /\ Len(cachedData.airdrops) = 3
  /\ cachedData.airdrops[1].token = "B"
  /\ cachedData.airdrops[2].token = "A"
  /\ cachedData.airdrops[3].token = rawIn[1].token
  /\ cachedData.airdrops[3].date = cachedData.airdrops[1].date
  /\ cachedData.airdrops[3].time # Absent

----------------------------------------------------------------------------
(* The responses of /fetch-data and the snapshot slot, under Spec *)

\* a payload with both annotations of a live refresh, with neither
Annotated(body) == {"hasChanges", "lastUpdateTime"} \subseteq DOMAIN body
Plain(body) == {"hasChanges", "lastUpdateTime"} \cap DOMAIN body = {}

\* C17: a /fetch-data response carries hasChanges and lastUpdateTime exactly
\* when its request has refreshed the snapshot from upstream; the cached
\* snapshot never holds them; a response from the cache is the snapshot,
\* without them.
C17_AnnotatedIffLiveRefresh ==
  [][/\ cachedData' # Null => Plain(cachedData')
     /\ RequestSettles
          => IF lastSettle'.ok THEN Annotated(lastResponse'.body)
             ELSE Plain(lastResponse'.body)
     /\ AnsweredFromCache
          => (Plain(lastResponse'.body) /\ lastResponse'.body = cachedData')]_vars

\* C17 witness: a request has refreshed the snapshot and had the annotated
\* payload, and the next one has had the snapshot from the cache
C17_Witness ==
  /\ served = 2 /\ reqs = <<>>
  /\ lastSettle # Null /\ lastSettle.by = "request" /\ lastSettle.ok
  /\ poll.fetches # {}
  /\ lastResponse # Null /\ lastResponse.status = 200
  /\ Plain(lastResponse.body)
  /\ lastResponse.body = lastSettle.data

\* C18: upstream fetches of the loop and of handlers run side by side, and
\* each one that succeeds replaces the snapshot by its own data, so that when
\* all have settled with success the slot holds the data of the one that
\* settled last.
C18_LastToSettleWins ==
  [][((PollSettles \/ RequestSettles) /\ lastSettle'.ok)
       => /\ cachedData' = lastSettle'.data
          /\ lastFetchTime' = now
          /\ RequestSettles
               => Unannotated(lastResponse'.body) = cachedData']_vars

\* C18 witness: the first fetch of the loop and a fetch of a handler, sent
\* later, were in flight together; the handler's settled first and was
\* answered, the loop's settled after it and the slot holds the loop's data,
\* other than the handler's
C18_Witness ==
  /\ InFlight = 0
  /\ poll.attempts = 1
  /\ lastSettle # Null /\ lastSettle.by = "poll" /\ lastSettle.ok
  /\ lastResponse # Null /\ lastResponse.status = 200
  /\ Annotated(lastResponse.body)
  /\ lastResponse.body.lastUpdateTime <= lastFetchTime
  /\ cachedData = lastSettle.data
  /\ cachedData # Unannotated(lastResponse.body)

\* lines 224-229: what /last-update answers; it changes nothing.  Absent
\* stands for the null of lastFetchTime
lastUpdate ==
  [lastFetchTime |-> IF lastFetchTime # Absent THEN lastFetchTime ELSE Absent,
   hasCachedData |-> cachedData # Null]

\* C19: in every state, there is cached data exactly when lastFetchTime is
\* set, as /last-update reports them; the two are written by the same
\* refresh; the data never goes back to absent and lastFetchTime never
\* decreases.
C19_SlotConsistent ==
  [][/\ (cachedData = Null) <=> (lastFetchTime = Absent)
     /\ (cachedData' = Null) <=> (lastFetchTime' = Absent)
     /\ lastUpdate'.hasCachedData <=> (lastUpdate'.lastFetchTime # Absent)
     /\ cachedData # Null => cachedData' # Null
     /\ lastFetchTime' >= lastFetchTime
     /\ (cachedData' # cachedData \/ lastFetchTime' # lastFetchTime)
          => /\ PollSettles \/ RequestSettles
             /\ lastSettle'.ok
             /\ cachedData' = lastSettle'.data
             /\ lastFetchTime' = now]_vars

\* C19 witness: the slot was written, rewritten later by another refresh,
\* and a fetch has failed since, with one more in flight
C19_Witness ==
  /\ lastUpdate.hasCachedData
  /\ lastUpdate.lastFetchTime > StartInstant
  /\ lastSettle # Null /\ ~lastSettle.ok
  /\ InFlight >= 1
  /\ served >= 1

\* C20: once a fingerprint is stored, no refresh, of the loop or of a
\* handler, successful or not, changes it; the change flag of every later
\* refresh compares with that first fingerprint.
C20_FingerprintWrittenOnce ==
  [][/\ previousDataHash # Null => previousDataHash' = previousDataHash
     /\ (RequestSettles /\ lastSettle'.ok /\ previousDataHash # Null)
          => (lastResponse'.body.hasChanges
                <=> generateDataHash(lastSettle'.data) # previousDataHash)]_vars

\* C20 witness: a later refresh has brought another collection and was
\* answered with hasChanges, and the fingerprint is still the first one
C20_Witness ==
  /\ previousDataHash # Null
  /\ cachedData # Null
  /\ generateDataHash(cachedData) # previousDataHash
  /\ lastFetchTime > StartInstant
  /\ lastSettle # Null /\ lastSettle.by = "request" /\ lastSettle.ok
  /\ lastResponse # Null /\ lastResponse.status = 200
  /\ Annotated(lastResponse.body)
  /\ lastResponse.body.hasChanges

====
